---- MODULE Spec2Model ----
(***************************************************************************)
(* Model of the Chatbot component of src/src/App.js: the session           *)
(* identifier kept in sessionStorage, the message history, the pending     *)
(* input, the loading flag and the request to POST /api/chat.              *)
(*                                                                         *)
(* JavaScript strings are sequences of one-character strings, so that      *)
(* String.prototype.trim is computed and not assumed.  null and undefined  *)
(* are the tagged tuples Null and Undefined.  One action is one run of a   *)
(* handler up to its await or its end: JavaScript runs a handler to        *)
(* completion and React has re-rendered before the next event is           *)
(* delivered, so every handler closes over the current state.  The         *)
(* disabled attributes of the input and the button (lines 107, 109) belong *)
(* to the view; the handlers are modelled as callable in every state, so   *)
(* that the guard of sendMessage itself is what is examined.               *)
(***************************************************************************)
EXTENDS Integers, Sequences, FiniteSets, TLC

\* ------------------------------------------------------------------ bounds
\* identifiers uuidv4 can hand out in one run
MaxUuid == 3
\* a send is explored while the history, with the optimistic message and an
\* error message added, stays within this length
MaxHist == 4

\* ------------------------------------------------------------ JS values
Null == <<"null">>
Undefined == <<"undefined">>
EmptyString == <<>>

\* !v for the values a session identifier can take
Falsy(v) == v = Null \/ v = Undefined \/ v = EmptyString

\* the n-th identifier uuidv4() returns
uuidv4(n) == <<"uuid", n>>

\* an identifier stored by an earlier load of the page in this tab
PriorId == <<"prior", 0>>
\* an identifier the backend generated itself
ServerId == <<"server", 1>>

\* the texts the user can have in the input field
Inputs == { EmptyString, <<" ", " ">>, <<"h", "i">>, <<" ", "y", "o", " ">> }

RECURSIVE trimStart(_)
trimStart(s) == IF s # <<>> /\ Head(s) = " " THEN trimStart(Tail(s)) ELSE s

RECURSIVE trimEnd(_)
trimEnd(s) ==
    IF s # <<>> /\ s[Len(s)] = " " THEN trimEnd(SubSeq(s, 1, Len(s) - 1)) ELSE s

\* String.prototype.trim
trim(s) == trimEnd(trimStart(s))

\* --------------------------------------------------------------- messages
userMessage(text) == [role |-> "user", parts |-> <<[text |-> text]>>]

ErrorMessage ==
    [role |-> "model",
     parts |-> <<[text |-> <<"I'm sorry, I couldn't process that. Please try again.">>]>>]

ReplyMessage == [role |-> "model", parts |-> <<[text |-> <<"reply">>]>>]

\* ------------------------------------------------------------------ state
VARIABLES
    messages,    \* useState([]), line 6
    input,       \* useState(''), line 7
    sessionId,   \* useState(initialiser), line 8
    isLoading,   \* useState(false), line 17
    storage,     \* sessionStorage item 'chatSessionId' (Null when absent)
    uuidCount,   \* how many identifiers uuidv4 has handed out
    pending,     \* the sendMessage calls suspended at their await, oldest first
    initLog,     \* what the latest initialiser run returned, and whether an
                 \* invalidation replaced the stored identifier since
    settled,     \* how the latest request ended, while no request was issued
                 \* since: its kind and the identifier it concerns
    last         \* the handler that ran last, its inputs and the state before it

vars == <<messages, input, sessionId, isLoading, storage, uuidCount, pending,
          initLog, settled, last>>

\* no request has ended since the page was loaded or the last one was issued
NothingSettled == [kind |-> "none", id |-> Null]

\* the state a handler starts from
Snapshot ==
    [messages |-> messages, input |-> input, sessionId |-> sessionId,
     isLoading |-> isLoading, storage |-> storage, pending |-> pending,
     initLog |-> initLog, settled |-> settled]

NoSnapshot ==
    [messages |-> <<>>, input |-> EmptyString, sessionId |-> Null,
     isLoading |-> FALSE, storage |-> Null, pending |-> <<>>,
     initLog |-> [returned |-> Null, invalidated |-> FALSE],
     settled |-> NothingSettled]

\* ------------------------------------------------------- session initialiser
\* lines 8-16: the value returned, the storage slot and the generator after it
initSession_AlwaysNew(stored, n) ==
    [id |-> uuidv4(n + 1), storage |-> uuidv4(n + 1), uuidCount |-> n + 1]

initSession(stored, n) ==
    IF Falsy(stored)
    THEN [id |-> uuidv4(n + 1), storage |-> uuidv4(n + 1), uuidCount |-> n + 1]
    ELSE [id |-> stored, storage |-> stored, uuidCount |-> n]

\* ----------------------------------------------------------------- requests
\* what a suspended sendMessage call holds: the values of the render it closed
\* over (lines 25-37)
Frame(sid, text, msgs) == [sessionId |-> sid, input |-> text, messages |-> msgs]
NoFrame == Frame(Null, EmptyString, <<>>)

\* the body of POST /api/chat, lines 34-37
RequestBody_Trimmed(f) == [sessionId |-> f.sessionId, message |-> trim(f.input)]

RequestBody(f) == [sessionId |-> f.sessionId, message |-> f.input]

\* the histories the backend can return for a request: none, a reply alone,
\* the turn, and the turn after what the client showed before the send
Histories(f) ==
    { <<>>,
      <<ReplyMessage>>,
      <<userMessage(RequestBody(f).message), ReplyMessage>>,
      f.messages \o <<userMessage(RequestBody(f).message), ReplyMessage>> }

\* a settled request: fulfilled with res.data, or rejected with an error.
\* error.response is absent on a transport failure; error.response.data is
\* null for a body that parses to null, else an object whose sessionId is
\* null, missing or a string.
Outcome(ok, sid, history, response, dataIsNull) ==
    [ok |-> ok,
     data |-> [sessionId |-> sid, history |-> history],
     response |-> response,
     dataIsNull |-> dataIsNull]
NoOutcome == Outcome(FALSE, Null, <<>>, FALSE, FALSE)

Fulfilments(f) ==
    { Outcome(TRUE, sid, h, TRUE, FALSE) :
        sid \in { RequestBody(f).sessionId, ServerId, EmptyString },
        h \in Histories(f) }

Rejections(f) ==
    { Outcome(FALSE, Null, <<>>, FALSE, FALSE),        \* no response
      Outcome(FALSE, Null, <<>>, TRUE, TRUE) }         \* body is null
    \cup { Outcome(FALSE, sid, <<>>, TRUE, FALSE) :
             sid \in { Null, Undefined, RequestBody(f).sessionId } }

Outcomes(f) == Fulfilments(f) \cup Rejections(f)

\* the wire signal of section 6: an error response whose body carries
\* sessionId: null
IsInvalidation(o) ==
    ~o.ok /\ o.response /\ ~o.dataIsNull /\ o.data.sessionId = Null

\* how the request of f ended with outcome o: fulfilled with the identifier
\* the server returned, rejected, or rejected with the identifier it carried
\* invalidated
Settled(f, o) ==
    IF o.ok THEN [kind |-> "fulfilled", id |-> o.data.sessionId]
    ELSE IF IsInvalidation(o)
         THEN [kind |-> "invalidated", id |-> RequestBody(f).sessionId]
         ELSE [kind |-> "rejected", id |-> Null]

\* ------------------------------------------------------------ sendMessage
\* line 26: the early return
Rejected_NoLoadingGuard(text, loading) == trim(text) = EmptyString

\* line 26 with the trim forgotten
Rejected_NoTrim(text, loading) == text = EmptyString \/ loading

Rejected(text, loading) == trim(text) = EmptyString \/ loading

\* line 34: the requests an accepted call issues, one axios.post
posted(f) == <<f>>

\* lines 44-61: the requests the continuation issues once its own request has
\* settled with outcome o: the try, catch and finally blocks post nothing
reposted_RetryOnFailure(f, o) == IF o.ok THEN <<>> ELSE <<f>>

reposted(f, o) == <<>>

\* line 29: setMessages((prevMessages) => [...prevMessages, userMessage])
optimistic_Replaces(prevMessages, text) == <<userMessage(text)>>

optimistic(prevMessages, text) == Append(prevMessages, userMessage(text))

\* the state the continuation of sendMessage reads and writes
Client ==
    [messages |-> messages, sessionId |-> sessionId, storage |-> storage,
     uuidCount |-> uuidCount, isLoading |-> isLoading]

\* lines 39-42: the rest of the try block, once the request is fulfilled
tryBlock_Appends(c, data) ==
    [c EXCEPT !.sessionId = data.sessionId, !.messages = @ \o data.history]

tryBlock(c, data) ==
    [c EXCEPT !.sessionId = data.sessionId, !.messages = data.history]

\* line 52: error.response && error.response.data.sessionId === null
\* (evaluated only when data is not null: see catchBlock)
Invalidates_LooseEquality(error) == error.response /\ Falsy(error.data.sessionId)

Invalidates(error) == error.response /\ error.data.sessionId = Null

\* lines 53-56: a new identifier, stored, made current; history cleared
rotate_KeepsHistory(c) ==
    LET newId == uuidv4(c.uuidCount + 1)
    IN [c EXCEPT !.uuidCount = @ + 1, !.storage = newId, !.sessionId = newId]

rotate(c) ==
    LET newId == uuidv4(c.uuidCount + 1)
    IN [c EXCEPT !.uuidCount = @ + 1, !.storage = newId, !.sessionId = newId,
                 !.messages = <<>>]

\* lines 44-58: the catch block.  Reading sessionId of a null data throws a
\* TypeError at line 52, after the error message was appended.
catchBlock(c, error) ==
    LET appended == [c EXCEPT !.messages = Append(@, ErrorMessage)]
    IN IF error.response /\ error.dataIsNull
       THEN [state |-> appended, thrown |-> TRUE]
       ELSE IF Invalidates(error)
            THEN [state |-> rotate(appended), thrown |-> FALSE]
            ELSE [state |-> appended, thrown |-> FALSE]

\* lines 59-61
finallyBlock_Missing(c) == c

finallyBlock(c) == [c EXCEPT !.isLoading = FALSE]

\* lines 33-61 after the await: try or catch, then finally, which also runs
\* when the catch block throws
settle_NoFinally(c, o) ==
    IF o.ok THEN finallyBlock(tryBlock(c, o.data))
    ELSE LET r == catchBlock(c, o)
         IN IF r.thrown THEN r.state ELSE finallyBlock(r.state)

settle(c, o) ==
    IF o.ok THEN finallyBlock(tryBlock(c, o.data))
    ELSE finallyBlock(catchBlock(c, o).state)

\* ---------------------------------------------------------------- actions
Event(op, f, o) == [op |-> op, before |-> Snapshot, frame |-> f, outcome |-> o]

Init ==
    \E stored \in { Null, PriorId } :
        LET r == initSession(stored, 0)
        IN /\ messages = <<>>
           /\ input = EmptyString
           /\ sessionId = r.id
           /\ isLoading = FALSE
           /\ storage = r.storage
           /\ uuidCount = r.uuidCount
           /\ pending = <<>>
           /\ initLog = [returned |-> r.id, invalidated |-> FALSE]
           /\ settled = NothingSettled
           /\ last = [op |-> "init",
                      before |-> [NoSnapshot EXCEPT !.storage = stored],
                      frame |-> NoFrame, outcome |-> NoOutcome]

\* line 103: onChange={(e) => setInput(e.target.value)}
onChange ==
    \E value \in Inputs :
        /\ input' = value
        /\ last' = Event("onChange", NoFrame, NoOutcome)
        /\ UNCHANGED <<messages, sessionId, isLoading, storage, uuidCount,
                       pending, initLog, settled>>

\* lines 25-37: sendMessage up to its await
sendMessage(op) ==
    /\ IF Rejected(input, isLoading)
       THEN /\ UNCHANGED <<messages, input, isLoading, pending, settled>>
            /\ last' = Event(op, NoFrame, NoOutcome)
       ELSE /\ Len(messages) + 2 <= MaxHist
            /\ messages' = optimistic(messages, input)
            /\ input' = EmptyString
            /\ isLoading' = TRUE
            /\ settled' = NothingSettled
            /\ pending' = pending \o posted(Frame(sessionId, input, messages))
            /\ last' = Event(op, Frame(sessionId, input, messages), NoOutcome)
    /\ UNCHANGED <<sessionId, storage, uuidCount, initLog>>

\* line 109: onClick={sendMessage}
onClick == sendMessage("click")

\* lines 64-68
handleKeyPress ==
    \E key \in { "Enter", "a" } :
        IF key = "Enter"
        THEN sendMessage("enter")
        ELSE /\ last' = Event("key", NoFrame, NoOutcome)
             /\ UNCHANGED <<messages, input, sessionId, isLoading, storage,
                            uuidCount, pending, initLog, settled>>

\* lines 38-61: a suspended sendMessage call resumes with the outcome of its
\* request
resume ==
    \E i \in 1..Len(pending) :
      \E o \in Outcomes(pending[i]) :
        LET c == settle(Client, o)
        IN /\ c.uuidCount <= MaxUuid
           /\ messages' = c.messages
           /\ sessionId' = c.sessionId
           /\ storage' = c.storage
           /\ uuidCount' = c.uuidCount
           /\ isLoading' = c.isLoading
           /\ pending' = SubSeq(pending, 1, i - 1)
                           \o SubSeq(pending, i + 1, Len(pending))
                           \o reposted(pending[i], o)
           /\ initLog' = [initLog EXCEPT !.invalidated = @ \/ IsInvalidation(o)]
           /\ settled' = Settled(pending[i], o)
           /\ last' = Event("resume", pending[i], o)
           /\ UNCHANGED input

\* the page is loaded again in the same tab: the component is constructed
\* anew (lines 6-17) over the same sessionStorage, and the suspended calls of
\* the old page are gone
reload ==
    LET r == initSession(storage, uuidCount)
    IN /\ r.uuidCount <= MaxUuid
       /\ messages' = <<>>
       /\ input' = EmptyString
       /\ sessionId' = r.id
       /\ isLoading' = FALSE
       /\ storage' = r.storage
       /\ uuidCount' = r.uuidCount
       /\ pending' = <<>>
       /\ initLog' = [returned |-> r.id, invalidated |-> FALSE]
       /\ settled' = NothingSettled
       /\ last' = Event("reload", NoFrame, NoOutcome)

Next == onChange \/ onClick \/ handleKeyPress \/ resume \/ reload

Spec == Init /\ [][Next]_vars

\* every issued request is eventually fulfilled or rejected
FairSpec == Spec /\ WF_vars(resume)

\* ------------------------------------------------------------------ claims
\* the handler that ran last was a sendMessage call (button or Enter key)
SendCalled == last.op \in { "click", "enter" }
\* and it passed the early return of line 26
SendAccepted ==
    SendCalled /\ ~last.before.isLoading /\ trim(last.before.input) # EmptyString
\* the handler that ran last was the continuation of a request
Resumed == last.op = "resume"

\* C1: at most one request is in flight, and a sendMessage call made while a
\* request is pending issues no request and appends no optimistic message.
C1_OneRequestInFlight ==
    /\ Len(pending) <= 1
    /\ (SendCalled /\ last.before.pending # <<>>) =>
           /\ pending = last.before.pending
           /\ messages = last.before.messages

\* C1 witness: Enter was pressed with a non-empty input while a request was
\* pending.
C1_Witness ==
    /\ last.op = "enter"
    /\ last.before.pending # <<>>
    /\ trim(last.before.input) # EmptyString

\* C2: whenever no request is in flight, the stored chatSessionId equals the
\* client's current session identifier.  Stated for the non-empty identifiers,
\* so that a violation does not rest on the empty identifier of C6.
C2_StoredIsCurrent == (pending = <<>> /\ ~Falsy(sessionId)) => storage = sessionId

\* C3: after a fulfilled request the history is the returned history and the
\* session identifier is the returned identifier.
C3_MirrorsServer ==
    (Resumed /\ last.outcome.ok) =>
        /\ messages = last.outcome.data.history
        /\ sessionId = last.outcome.data.sessionId

\* C3 witness: a request was fulfilled with a rotated identifier and a
\* non-empty history while the local history held an earlier error message.
C3_Witness ==
    /\ Resumed
    /\ last.outcome.ok
    /\ last.outcome.data.sessionId = ServerId
    /\ last.outcome.data.history = <<ReplyMessage>>
    /\ \E i \in 1..Len(last.before.messages) : last.before.messages[i] = ErrorMessage

\* C4: after a rejection whose body carries sessionId: null the identifier is
\* a new one, differs from the previous one, is stored, and the history is
\* empty.
C4_InvalidationRotates ==
    (Resumed /\ IsInvalidation(last.outcome)) =>
        /\ ~Falsy(sessionId)
        /\ sessionId # last.before.sessionId
        /\ sessionId # last.before.storage
        /\ sessionId # last.frame.sessionId
        /\ storage = sessionId
        /\ messages = <<>>

\* C4 witness: an invalidation arrived while the history held an earlier
\* exchange besides the optimistic message.
C4_Witness ==
    /\ Resumed
    /\ IsInvalidation(last.outcome)
    /\ Len(last.before.messages) >= 3

\* C5: after a rejection without invalidation the identifier and the stored
\* identifier are unchanged and the history is the history before the send,
\* the optimistic message and one error message.
C5_FailureKeepsSession ==
    (Resumed /\ ~last.outcome.ok /\ ~IsInvalidation(last.outcome)) =>
        /\ sessionId = last.before.sessionId
        /\ storage = last.before.storage
        /\ messages = last.frame.messages
                        \o <<userMessage(last.frame.input), ErrorMessage>>

\* C5 witness: an error response whose body has no sessionId arrived for a
\* send made over a non-empty history.
C5_Witness ==
    /\ Resumed
    /\ ~last.outcome.ok
    /\ last.outcome.response
    /\ ~last.outcome.dataIsNull
    /\ last.outcome.data.sessionId = Undefined
    /\ last.frame.messages # <<>>

\* C6: the session identifier is never null, undefined or the empty string.
C6_SessionIdNeverEmpty == ~Falsy(sessionId)

\* C7: an accepted sendMessage appends one user message carrying the input,
\* keeps the earlier entries, clears the input and sets the loading flag,
\* with its request still pending.
C7_OptimisticAppend ==
    SendAccepted =>
        /\ messages = Append(last.before.messages, userMessage(last.before.input))
        /\ input = EmptyString
        /\ isLoading
        /\ pending = Append(last.before.pending, last.frame)

\* C7 witness: an input with surrounding blanks was sent over a non-empty
\* history.
C7_Witness ==
    /\ SendAccepted
    /\ last.before.input = <<" ", "y", "o", " ">>
    /\ last.before.messages # <<>>

\* C8: when the continuation of an accepted sendMessage has run, the loading
\* flag is false, whatever the outcome.
C8_LoadingCleared == Resumed => ~isLoading

\* C8 witness: the continuation ran on an error response whose body is null,
\* where the catch block throws.
C8_Witness ==
    /\ Resumed
    /\ ~last.outcome.ok
    /\ last.outcome.response
    /\ last.outcome.dataIsNull

\* the initialiser ran last (first load or reload)
Initialised == last.op \in { "init", "reload" }

\* C9: the initialiser generates and stores an identifier only when the slot
\* is absent and otherwise returns the stored value without writing; run
\* again with no invalidation in between, it returns the identifier it
\* returned before.
C9_InitRoundTrip ==
    /\ Initialised =>
          /\ sessionId = initLog.returned
          /\ IF last.before.storage = Null
             THEN /\ sessionId = uuidv4(uuidCount)
                  /\ storage = sessionId
             ELSE /\ sessionId = last.before.storage
                  /\ storage = last.before.storage
    /\ (last.op = "reload" /\ ~last.before.initLog.invalidated) =>
          sessionId = last.before.initLog.returned

\* C9 witness: the page was reloaded, with no invalidation since the last
\* initialisation, after the server had rotated the identifier.
C9_Witness ==
    /\ last.op = "reload"
    /\ ~last.before.initLog.invalidated
    /\ last.before.sessionId = ServerId

\* C10: every Sending state is followed by an Idle state, and a sendMessage
\* with non-empty input made in an Idle state is accepted and issues a request.
C10_NoTerminalState ==
    /\ isLoading ~> ~isLoading
    /\ [](SendAccepted => (isLoading /\ Len(pending) = Len(last.before.pending) + 1))

\* C10 witness: a send was accepted in the Idle state reached after a failure.
C10_Witness ==
    /\ SendAccepted
    /\ last.before.messages # <<>>
    /\ last.before.messages[Len(last.before.messages)] = ErrorMessage
    /\ Len(pending) = 1

\* C11: an accepted sendMessage issues exactly one request, the continuation
\* of a failed request issues none, and no other handler issues one: after a
\* failure nothing is in flight until sendMessage is accepted again.
C11_NoRetry ==
    /\ SendAccepted => Len(pending) = Len(last.before.pending) + 1
    /\ (Resumed /\ ~last.outcome.ok) => pending = <<>>
    /\ (~SendAccepted /\ last.op # "init") => Len(pending) <= Len(last.before.pending)

\* C11 witness: the continuation ran on a transport failure and left nothing
\* in flight.
C11_Witness ==
    /\ Resumed
    /\ ~last.outcome.ok
    /\ ~last.outcome.response
    /\ pending = <<>>
    /\ ~isLoading

\* C12: the loading flag is true exactly when a request is in flight.
C12_LoadingIffInFlight == isLoading <=> pending # <<>>

\* C12 witness: a request is still in flight after a further sendMessage call
\* was made and ignored, and the flag is still true.
C12_Witness ==
    /\ SendCalled
    /\ last.before.isLoading
    /\ isLoading
    /\ Len(pending) = 1

\* C14: a sendMessage call whose input is empty or blank changes nothing and
\* issues no request.
C14_BlankInputNoOp ==
    (SendCalled /\ trim(last.before.input) = EmptyString) =>
        /\ messages = last.before.messages
        /\ input = last.before.input
        /\ isLoading = last.before.isLoading
        /\ sessionId = last.before.sessionId
        /\ storage = last.before.storage
        /\ pending = last.before.pending

\* C14 witness: the button was clicked in the Idle state with an input of
\* blanks only.
C14_Witness ==
    /\ last.op = "click"
    /\ last.before.input = <<" ", " ">>
    /\ ~last.before.isLoading

\* C13: the request of an accepted sendMessage carries the session identifier
\* the client held at the send and the text of the optimistic message; the
\* first request after an invalidation carries the newly generated and stored
\* identifier, not the invalidated one, and the first request after a success
\* carries the identifier the server returned.
C13_RequestCarriesCurrent ==
    SendAccepted =>
        LET body == RequestBody(pending[Len(pending)])
            was == last.before.settled
        IN /\ body.sessionId = last.before.sessionId
           /\ body.message = last.before.input
           /\ messages[Len(messages)] = userMessage(body.message)
           /\ was.kind = "invalidated" =>
                  /\ body.sessionId # was.id
                  /\ body.sessionId = last.before.storage
                  /\ body.sessionId = uuidv4(uuidCount)
           /\ was.kind = "fulfilled" => body.sessionId = was.id

\* C13 witness: an input with surrounding blanks was sent as the first
\* request after an invalidation.
C13_Witness ==
    /\ SendAccepted
    /\ last.before.settled.kind = "invalidated"
    /\ last.before.input = <<" ", "y", "o", " ">>

====
